---- MODULE Spec2Model ----
(***************************************************************************)
(* hello_agent.py: a straight-line script that loads a .env file, reads    *)
(* OPENAI_API_KEY, builds an OpenAI client, issues one chat-completion     *)
(* call and prints the first choice's message content.                     *)
(*                                                                         *)
(* Texts are sequences of one-character strings.  The Python object None   *)
(* is the value None below, which is no text.  The calls the script makes  *)
(* into python-dotenv, the openai client and the interpreter are modelled  *)
(* by their behaviour with the arguments (and defaults) the script gives.  *)
(***************************************************************************)
EXTENDS Integers, Sequences, FiniteSets

VARIABLES
    pc,        \* the statement the script executes next, "wait" inside create(), or "exit"
    environ0,  \* os.environ when the process starts
    dotenv,    \* the optional .env file
    environ,   \* os.environ
    api_key,   \* the value of os.getenv("OPENAI_API_KEY"), Unread before line 8
    client,    \* <<>> or <<the OpenAI client>>
    requests,  \* the HTTP requests put on the network, in order
    replies,   \* what came back for each request: a status, or NoReply
    retries_taken, \* re-sends made by the client inside create()
    response,  \* <<>> or <<the ChatCompletion returned by create()>>
    stdout,    \* the text written to standard output
    files,     \* the files written by the process
    exc,       \* the unhandled exception that ended the run, or "none"
    exitCode,  \* the exit code, -1 while running
    trace      \* the statements executed so far, in order

vars == <<pc, environ0, dotenv, environ, api_key, client, requests, replies,
          retries_taken, response, stdout, files, exc, exitCode, trace>>

(* ------------------------------ bounds -------------------------------- *)
MaxKeyLen == 2
MaxLen == 2
MaxChoices == 1

(* ------------------------------ values -------------------------------- *)
None == <<"NoneType">>
Unread == <<"unread">>
NL == "\n"

KEY == "OPENAI_API_KEY"
Names == {KEY, "OTHER"}

RECURSIVE Texts(_, _)
Texts(chars, n) ==
    IF n = 0 THEN {<<>>}
    ELSE LET shorter == Texts(chars, n - 1)
         IN  shorter \cup {Append(t, c) : t \in shorter, c \in chars}

\* credential strings (the empty string is a set, empty credential)
KeyValues == Texts({"k"}, MaxKeyLen)
OptKey == KeyValues \cup {None}
OtherValues == {None, <<"v">>}
EnvValues(n) == IF n = KEY THEN OptKey ELSE OtherValues
Environments == {e \in [Names -> OptKey \cup OtherValues] :
                     \A n \in Names : e[n] \in EnvValues(n)}
NoVars == [n \in Names |-> None]
DotenvFiles == {[present |-> FALSE, vals |-> NoVars]}
                   \cup {[present |-> TRUE, vals |-> v] : v \in Environments}

\* the texts the endpoint generates
Contents == Texts({"H", NL}, MaxLen)
Choices == {[message |-> [content |-> c]] : c \in Contents \cup {None}}
RECURSIVE Lists(_, _)
Lists(S, n) ==
    IF n = 0 THEN {<<>>}
    ELSE LET shorter == Lists(S, n - 1)
         IN  shorter \cup {Append(l, x) : l \in shorter, x \in S}
Completions == {[choices |-> l] : l \in Lists(Choices, MaxChoices)}

StatusCodes == {400, 401, 404, 429, 500}
\* the reply recorded for a request whose connection failed or timed out
NoReply == -1

(* ------------------------- the script's constants --------------------- *)
MODEL == "gpt-4o-mini"
SYSTEM_MESSAGE == [role |-> "system", content |-> "You are a friendly AI assistant."]
USER_MESSAGE == [role |-> "user",
                 content |-> "Say hello and explain what an AI agent is in one sentence."]

\* the client is built without max_retries, so the client's default applies
DEFAULT_MAX_RETRIES == 2

(* ------------------------- library behaviour -------------------------- *)
\* load_dotenv(override=True): the file's values replace the environment's
load_dotenv_override(env, file) ==
    IF ~file.present THEN env
    ELSE [n \in Names |-> IF file.vals[n] # None THEN file.vals[n] ELSE env[n]]

\* load_dotenv() with its defaults (override=False): a variable already in
\* the environment is kept, a variable the file gives a value to is added
load_dotenv(env, file) ==
    IF ~file.present THEN env
    ELSE [n \in Names |-> IF env[n] # None THEN env[n] ELSE file.vals[n]]

\* os.getenv(name, ""): an unset variable reads as the empty string
os_getenv_default(env, name) == IF env[name] = None THEN <<>> ELSE env[name]

\* os.getenv(name): the value, or None when the variable is unset
os_getenv(env, name) == env[name]

\* OpenAI(api_key=arg): a None argument falls back to the environment; the
\* result None means the constructor raises OpenAIError
OpenAI_api_key(arg, env) == IF arg # None THEN arg ELSE env[KEY]

\* the Authorization header of a request: absent for an empty key
auth_headers(key) == IF key = <<>> THEN None ELSE key

\* the two messages in the other order
BuildRequest_swapped(c) ==
    [model |-> MODEL,
     messages |-> <<USER_MESSAGE, SYSTEM_MESSAGE>>,
     authorization |-> auth_headers(c.api_key)]

\* the arguments of chat.completions.create
BuildRequest(c) ==
    [model |-> MODEL,
     messages |-> <<SYSTEM_MESSAGE, USER_MESSAGE>>,
     authorization |-> auth_headers(c.api_key)]

\* every error status is retried
should_retry_any(status) == TRUE

\* the statuses the client re-sends a request for
should_retry(status) == status \in {408, 409, 429} \/ status >= 500

\* the exception the client raises for an error status
status_error(status) ==
    CASE status = 400 -> "BadRequestError"
      [] status = 401 -> "AuthenticationError"
      [] status = 404 -> "NotFoundError"
      [] status = 429 -> "RateLimitError"
      [] OTHER        -> "InternalServerError"

APIErrors == {status_error(s) : s \in StatusCodes}

\* str(obj) for a text or None
py_str(obj) == IF obj = None THEN <<"N", "o", "n", "e">> ELSE obj

\* sys.stdout.write(str(obj)): no newline
py_print_bare(obj) == py_str(obj)

\* a debugging print that shows the key with the content
py_print_leak(obj) == py_str(api_key) \o <<":">> \o py_str(obj) \o <<NL>>

\* what print(obj) writes
py_print(obj) == py_str(obj) \o <<NL>>

\* an empty choices list prints an empty line instead of raising
Line18_lenient(resp) ==
    IF Len(resp.choices) = 0
    THEN [exc |-> "none", text |-> py_print(<<>>)]
    ELSE [exc |-> "none", text |-> py_print(resp.choices[1].message.content)]

\* line 18: response.choices[0].message.content is evaluated, then printed
Line18(resp) ==
    IF Len(resp.choices) = 0
    THEN [exc |-> "IndexError", text |-> <<>>]
    ELSE [exc |-> "none", text |-> py_print(resp.choices[1].message.content)]

(* ------------------------------ the script ---------------------------- *)
Script == <<"load_dotenv", "getenv", "OpenAI", "create", "print">>

\* the call and the print in a loop
After_loop(s) ==
    LET i == CHOOSE j \in 1..Len(Script) : Script[j] = s
    IN  IF i = Len(Script) THEN "create" ELSE Script[i + 1]

\* straight-line code: the statement after s, "exit" after the last one
After(s) ==
    LET i == CHOOSE j \in 1..Len(Script) : Script[j] = s
    IN  IF i = Len(Script) THEN "exit" ELSE Script[i + 1]

\* an except clause that prints the error and lets the script end normally
Raise_reported(e) ==
    /\ pc' = "exit"
    /\ exc' = e
    /\ exitCode' = 0
    /\ stdout' = stdout \o <<"e", "r", "r", NL>>

\* nothing catches an exception: the interpreter ends the process with code 1
Raise(e) ==
    /\ pc' = "exit"
    /\ exc' = e
    /\ exitCode' = 1
    /\ stdout' = stdout

Init ==
    /\ pc = Script[1]
    /\ environ0 \in Environments
    /\ dotenv \in DotenvFiles
    /\ environ = environ0
    /\ api_key = Unread
    /\ client = <<>>
    /\ requests = <<>>
    /\ replies = <<>>
    /\ retries_taken = 0
    /\ response = <<>>
    /\ stdout = <<>>
    /\ files = {}
    /\ exc = "none"
    /\ exitCode = -1
    /\ trace = <<>>

\* line 5
LoadDotenv ==
    /\ pc = "load_dotenv"
    /\ environ' = load_dotenv(environ, dotenv)
    /\ pc' = After("load_dotenv")
    /\ trace' = Append(trace, "load_dotenv")
    /\ UNCHANGED <<environ0, dotenv, api_key, client, requests, replies, retries_taken,
                   response, stdout, files, exc, exitCode>>

\* line 8, the argument
Getenv ==
    /\ pc = "getenv"
    /\ api_key' = os_getenv(environ, KEY)
    /\ pc' = After("getenv")
    /\ trace' = Append(trace, "getenv")
    /\ UNCHANGED <<environ0, dotenv, environ, client, requests, replies, retries_taken,
                   response, stdout, files, exc, exitCode>>

\* line 8, the constructor
NewClient ==
    /\ pc = "OpenAI"
    /\ OpenAI_api_key(api_key, environ) # None
    /\ client' = <<[api_key |-> OpenAI_api_key(api_key, environ),
                    max_retries |-> DEFAULT_MAX_RETRIES]>>
    /\ pc' = After("OpenAI")
    /\ trace' = Append(trace, "OpenAI")
    /\ UNCHANGED <<environ0, dotenv, environ, api_key, requests, replies, retries_taken,
                   response, stdout, files, exc, exitCode>>

NewClientRaises ==
    /\ pc = "OpenAI"
    /\ OpenAI_api_key(api_key, environ) = None
    /\ Raise("OpenAIError")
    /\ trace' = Append(trace, "OpenAI")
    /\ UNCHANGED <<environ0, dotenv, environ, api_key, client, requests, replies,
                   retries_taken, response, files>>

\* lines 10-16: the call is made and its first request goes out
Create ==
    /\ pc = "create"
    /\ requests' = Append(requests, BuildRequest(client[1]))
    /\ retries_taken' = 0
    /\ pc' = "wait"
    /\ trace' = Append(trace, "create")
    /\ UNCHANGED <<environ0, dotenv, environ, api_key, client, replies, response,
                   stdout, files, exc, exitCode>>

remaining_retries == client[1].max_retries - retries_taken

Resend(reply) ==
    /\ replies' = Append(replies, reply)
    /\ requests' = Append(requests, BuildRequest(client[1]))
    /\ retries_taken' = retries_taken + 1
    /\ UNCHANGED <<pc, environ0, dotenv, environ, api_key, client, response,
                   stdout, files, exc, exitCode, trace>>

\* the endpoint answers 200 with a completion: create() returns it
HttpOk(body) ==
    /\ pc = "wait"
    /\ response' = <<body>>
    /\ replies' = Append(replies, 200)
    /\ pc' = After("create")
    /\ UNCHANGED <<environ0, dotenv, environ, api_key, client, requests,
                   retries_taken, stdout, files, exc, exitCode, trace>>

\* the endpoint answers with an error status
HttpStatusRetry(status) ==
    /\ pc = "wait"
    /\ remaining_retries > 0 /\ should_retry(status)
    /\ Resend(status)

HttpStatusRaise(status) ==
    /\ pc = "wait"
    /\ ~(remaining_retries > 0 /\ should_retry(status))
    /\ Raise(status_error(status))
    /\ replies' = Append(replies, status)
    /\ UNCHANGED <<environ0, dotenv, environ, api_key, client, requests,
                   retries_taken, response, files, trace>>

\* the connection fails or times out
TransportRetry ==
    /\ pc = "wait"
    /\ remaining_retries > 0
    /\ Resend(NoReply)

TransportRaise ==
    /\ pc = "wait"
    /\ ~(remaining_retries > 0)
    /\ Raise("APIConnectionError")
    /\ replies' = Append(replies, NoReply)
    /\ UNCHANGED <<environ0, dotenv, environ, api_key, client, requests,
                   retries_taken, response, files, trace>>

\* line 18
WriteLine ==
    /\ pc = "print"
    /\ Line18(response[1]).exc = "none"
    /\ stdout' = stdout \o Line18(response[1]).text
    /\ pc' = After("print")
    /\ exitCode' = IF After("print") = "exit" THEN 0 ELSE exitCode
    /\ trace' = Append(trace, "print")
    /\ UNCHANGED <<environ0, dotenv, environ, api_key, client, requests, replies,
                   retries_taken, response, files, exc>>

WriteLineRaises ==
    /\ pc = "print"
    /\ Line18(response[1]).exc # "none"
    /\ Raise(Line18(response[1]).exc)
    /\ trace' = Append(trace, "print")
    /\ UNCHANGED <<environ0, dotenv, environ, api_key, client, requests, replies,
                   retries_taken, response, files>>

Next ==
    \/ LoadDotenv
    \/ Getenv
    \/ NewClient
    \/ NewClientRaises
    \/ Create
    \/ \E body \in Completions : HttpOk(body)
    \/ \E status \in StatusCodes : HttpStatusRetry(status)
    \/ \E status \in StatusCodes : HttpStatusRaise(status)
    \/ TransportRetry
    \/ TransportRaise
    \/ WriteLine
    \/ WriteLineRaises

Spec == Init /\ [][Next]_vars

(* ------------------------------ properties ---------------------------- *)
Count(seq, x) == Cardinality({i \in 1..Len(seq) : seq[i] = x})

\* t occurs in text as a contiguous run of characters
Appears(t, text) ==
    \E i \in 1..(Len(text) - Len(t) + 1) : SubSeq(text, i, i + Len(t) - 1) = t

Returned == response # <<>>
HasChoice == Returned /\ Len(response[1].choices) > 0
FirstContent == response[1].choices[1].message.content

\* C1: when the call returns a response whose first choice has text content
\* C, nothing is written before the print, and the run ends with exactly C
\* followed by one newline on standard output, printed once, exit code 0.
C1_Passthrough ==
    (HasChoice /\ FirstContent # None) =>
        /\ pc \in {"print", "exit"}
        /\ pc = "print" => stdout = <<>> /\ exitCode = -1
        /\ pc = "exit" => /\ stdout = FirstContent \o <<"\n">>
                          /\ Count(trace, "print") = 1
                          /\ exc = "none"
                          /\ exitCode = 0

C1_Witness ==
    /\ HasChoice
    /\ FirstContent = <<"H", "H">>
    /\ pc = "exit"
    /\ stdout = <<"H", "H", "\n">>

\* C2: when the call raises an API-side error (bad request, authentication,
\* not found, rate limit/quota, server error), the run has ended with a
\* non-zero exit code and standard output is empty.
C2_APIErrorPassthrough ==
    exc \in {"BadRequestError", "AuthenticationError", "NotFoundError",
             "RateLimitError", "InternalServerError"} =>
        /\ pc = "exit"
        /\ exitCode > 0
        /\ stdout = <<>>
        /\ ~Returned

C2_Witness ==
    /\ exc = "AuthenticationError"
    /\ pc = "exit"
    /\ replies = <<401>>

\* C3: when OPENAI_API_KEY is unset in the environment and the .env file
\* does not supply it, no request is ever put on the network: the run never
\* reaches the call and ends with OpenAIError and a non-zero exit code.
NoCredential ==
    /\ environ0["OPENAI_API_KEY"] = None
    /\ ~(dotenv.present /\ dotenv.vals["OPENAI_API_KEY"] # None)

C3_MissingCredential ==
    NoCredential =>
        /\ Len(requests) = 0
        /\ pc \notin {"create", "wait", "print"}
        /\ pc = "exit" => exc = "OpenAIError" /\ exitCode > 0

C3_Witness ==
    /\ NoCredential
    /\ pc = "exit"
    /\ Count(trace, "OpenAI") = 1

\* C4: every request sent carries the model "gpt-4o-mini" and exactly two
\* messages, the system message first and the user message second.
C4_MessageOrdering ==
    \A i \in 1..Len(requests) :
        /\ requests[i].model = "gpt-4o-mini"
        /\ Len(requests[i].messages) = 2
        /\ requests[i].messages[1] =
               [role |-> "system", content |-> "You are a friendly AI assistant."]
        /\ requests[i].messages[2] =
               [role |-> "user",
                content |-> "Say hello and explain what an AI agent is in one sentence."]

C4_Witness ==
    /\ Len(requests) > 0
    /\ requests[1].authorization = <<"k", "k">>

\* C5: once the .env file has been loaded, loading it again leaves the
\* resolved credential as it is; and when OPENAI_API_KEY was already set in
\* the environment, the credential after zero, one or two loads, and the
\* credential the client uses, is the value the environment had.
C5_LoadIdempotent ==
    Count(trace, "load_dotenv") > 0 =>
        /\ os_getenv(load_dotenv(environ, dotenv), KEY) = os_getenv(environ, KEY)
        /\ environ0[KEY] # None =>
               /\ os_getenv(environ, KEY) = environ0[KEY]
               /\ os_getenv(load_dotenv(environ, dotenv), KEY) = environ0[KEY]
               /\ api_key \in {Unread, environ0[KEY]}
               /\ client # <<>> => client[1].api_key = environ0[KEY]

C5_Witness ==
    /\ environ0[KEY] = <<"k">>
    /\ dotenv.present
    /\ dotenv.vals[KEY] = <<"k", "k">>
    /\ client # <<>>
    /\ Len(requests) > 0

C8_ZeroChoices ==
    (Returned /\ Len(response[1].choices) = 0) =>
        /\ stdout = <<>>
        /\ pc \in {"print", "exit"}
        /\ pc = "exit" => exc = "IndexError" /\ exitCode > 0

C8_Witness ==
    /\ Returned
    /\ Len(response[1].choices) = 0
    /\ pc = "exit"

\* C9 as claimed: when the first choice's content is null, the run prints no
\* line and does not exit 0.
C9_NullContentRejected ==
    (HasChoice /\ FirstContent = None /\ pc = "exit") =>
        /\ stdout = <<>>
        /\ exitCode # 0

\* C10: the statements run in the order load_dotenv, getenv, OpenAI, create,
\* print, each at most once; requests go out only after the credential was
\* read; the print happens only after the call has returned; and the print
\* is the last step.
C10_LinearSequence ==
    /\ Len(trace) <= 5
    /\ \A i \in 1..Len(trace) :
           trace[i] = <<"load_dotenv", "getenv", "OpenAI", "create", "print">>[i]
    /\ Len(requests) > 0 => Len(trace) >= 4 /\ api_key # Unread
    /\ api_key # Unread => Count(trace, "load_dotenv") = 1
    /\ Count(trace, "print") > 0 =>
           /\ Returned
           /\ Len(replies) = Len(requests)
           /\ pc = "exit"

C10_Witness ==
    /\ trace = <<"load_dotenv", "getenv", "OpenAI", "create", "print">>
    /\ pc = "exit"
    /\ exitCode = 0

====
